---- MODULE Spec2Model ----
(***************************************************************************)
(* RAGent: PDF ingestion into a Qdrant collection and retrieval from it.   *)
(* The model follows src/data_loader.py (embedder, chunk loading),         *)
(* src/vector_database.py (QdrantStorage) and src/main.py (the pipelines   *)
(* and the two event handlers).                                            *)
(*                                                                         *)
(* Texts are sequences of characters, so that blank tests and strip() are  *)
(* computed.  A vector is represented by what the code can observe of it:  *)
(* its length, plus the text and task type it was computed from.           *)
(* Each action is one whole call of a function of the program; what the    *)
(* external services (embedding service, Qdrant, file system) answer is    *)
(* an input of the action.  Where two calls run at the same time, an       *)
(* action is one request of one of them to a service.                      *)
(***************************************************************************)
EXTENDS Integers, Sequences, FiniteSets, TLC

VARIABLES
    points,             \* the records of the collection "docs" in Qdrant
    collection_exists,  \* whether the collection "docs" has been created
    pre,                \* the records before the last call
    last,               \* the last call: op, args, outcome, error, result, repeat
    index_calls,        \* the requests the last call sent to Qdrant, in order
    embed_calls,        \* the requests the last call sent to the embedding service
    nops,               \* number of calls made so far
    procs,              \* the ingestions running at the same time, each with its
                        \* position in upsert_embeddings and its locals
    uploads,            \* names of the files the UI has saved in ./uploads
    inngest             \* the event server: events sent and not yet delivered,
                        \* events delivered, function runs started

vars == <<points, collection_exists, pre, last, index_calls, embed_calls, nops, procs,
          uploads, inngest>>

----------------------------------------------------------------------------
(* Bounds of the model *)

\* longest chunk list / text list given to the embedder
MaxChunks == 2
\* longest vectors / ids / payloads list given to upsert
MaxBatch == 2
\* calls per behaviour
MaxOps == 2
\* events sent by the UI per behaviour
MaxEvents == 2

(* Constants of the program *)

EMBED_DIM == 768
QDRANT_DIM == 768
MAX_TEXT_LEN == 10000
DEFAULT_TOP_K == 5
MAX_TOP_K == 20

WrongDim == EMBED_DIM + 1   \* some length other than the configured dimension

----------------------------------------------------------------------------
(* Texts *)

TextA == <<"a">>
TextB == <<"b">>
TextBlank == <<" ">>
TextEmpty == <<>>
TextPadded == <<" ", "a">>

IsSpace(c) == c \in {" ", "\t", "\n"}

RECURSIVE LStrip(_)
LStrip(t) ==
    IF t = <<>> THEN t
    ELSE IF IsSpace(Head(t)) THEN LStrip(Tail(t)) ELSE t

RECURSIVE RStrip(_)
RStrip(t) ==
    IF t = <<>> THEN t
    ELSE IF IsSpace(t[Len(t)]) THEN RStrip(SubSeq(t, 1, Len(t) - 1)) ELSE t

\* str.strip()
Strip(t) == RStrip(LStrip(t))

\* the test without strip(): a text of spaces passes
NonBlankNoStrip(t) == t # <<>>

\* the test `t and t.strip()`
NonBlank(t) == t # <<>> /\ Strip(t) # <<>>

\* text[:10000]
Truncate(t) == IF Len(t) > MAX_TEXT_LEN THEN SubSeq(t, 1, MAX_TEXT_LEN) ELSE t

Min(a, b) == IF a < b THEN a ELSE b

\* all sequences over S of length 0..n
SeqsUpTo(S, n) == UNION {[1..k -> S] : k \in 0..n}

\* dict.get(key, default)
Get(d, k, default) == IF k \in DOMAIN d THEN d[k] ELSE default

NoError == "none"

----------------------------------------------------------------------------
(* The embedding service: genai.embed_content(model, content, task_type).  *)
(* svc says how the service answers the calls of one operation: the call   *)
(* number fail_at (0: none) is answered by an exception ("raise") or by a  *)
(* vector of another length ("wrong_dim"); every other call is answered    *)
(* by a vector of EMBED_DIM numbers.                                       *)

SvcOk == [fail_at |-> 0, kind |-> "ok"]

SvcAnswers(n) ==
    {SvcOk} \cup [fail_at : 1..n, kind : {"raise", "wrong_dim"}]

\* the answer to call number k
SvcAnswer(svc, k) == IF svc.fail_at = k THEN svc.kind ELSE "ok"

EmbedContent(content, task_type, svc, k) ==
    IF SvcAnswer(svc, k) = "raise"
    THEN [raised |-> TRUE, embedding |-> <<>>]
    ELSE [raised |-> FALSE,
          embedding |-> [len |-> IF SvcAnswer(svc, k) = "wrong_dim" THEN WrongDim
                                 ELSE EMBED_DIM,
                         of |-> content, task |-> task_type]]

\* a request to the embedding service and how it was answered
EmbedCall(content, task_type, answer) ==
    [content |-> content, task_type |-> task_type, answer |-> answer]

\* a loop that cuts or pads a vector of another length to EMBED_DIM numbers
\* instead of raising
RECURSIVE EmbedLoopCoercing(_, _, _, _, _)
EmbedLoopCoercing(valid_texts, i, svc, embeddings, calls) ==
    IF i > Len(valid_texts)
    THEN [outcome |-> "ok", error |-> NoError, vectors |-> embeddings, calls |-> calls]
    ELSE LET text == Truncate(valid_texts[i])
             response == EmbedContent(text, "retrieval_document", svc, i)
             calls2 == Append(calls, EmbedCall(text, "retrieval_document", SvcAnswer(svc, i)))
         IN  IF response.raised
             THEN [outcome |-> "error", error |-> "Exception: embed_content failed",
                   vectors |-> <<>>, calls |-> calls2]
             ELSE EmbedLoopCoercing(valid_texts, i + 1, svc,
                                    Append(embeddings,
                                           [response.embedding EXCEPT !.len = EMBED_DIM]),
                                    calls2)

\* the loop of embed_texts over valid_texts, from text i on
RECURSIVE EmbedLoop(_, _, _, _, _)
EmbedLoop(valid_texts, i, svc, embeddings, calls) ==
    IF i > Len(valid_texts)
    THEN [outcome |-> "ok", error |-> NoError, vectors |-> embeddings, calls |-> calls]
    ELSE LET text == Truncate(valid_texts[i])
             response == EmbedContent(text, "retrieval_document", svc, i)
             calls2 == Append(calls, EmbedCall(text, "retrieval_document", SvcAnswer(svc, i)))
         IN  IF response.raised
             THEN [outcome |-> "error", error |-> "Exception: embed_content failed",
                   vectors |-> <<>>, calls |-> calls2]
             ELSE IF response.embedding.len # EMBED_DIM
             THEN [outcome |-> "error", error |-> "ValueError: Expected embedding dimension",
                   vectors |-> <<>>, calls |-> calls2]
             ELSE EmbedLoop(valid_texts, i + 1, svc,
                            Append(embeddings, response.embedding), calls2)

\* embed_texts(texts)
embed_texts(texts, svc) ==
    IF texts = <<>>
    THEN [outcome |-> "error", error |-> "ValueError: texts list cannot be empty",
          vectors |-> <<>>, calls |-> <<>>]
    ELSE LET valid_texts == SelectSeq(texts, NonBlank)
         IN  IF valid_texts = <<>>
             THEN [outcome |-> "error", error |-> "ValueError: No valid non-empty texts to embed",
                   vectors |-> <<>>, calls |-> <<>>]
             ELSE EmbedLoop(valid_texts, 1, svc, <<>>, <<>>)

\* embed_query(query)
embed_query(query, svc) ==
    IF ~NonBlank(query)
    THEN [outcome |-> "error", error |-> "ValueError: Query cannot be empty",
          vectors |-> <<>>, calls |-> <<>>]
    ELSE LET response == EmbedContent(query, "retrieval_query", svc, 1)
             calls == <<EmbedCall(query, "retrieval_query", SvcAnswer(svc, 1))>>
         IN  IF response.raised
             THEN [outcome |-> "error", error |-> "Exception: embed_content failed",
                   vectors |-> <<>>, calls |-> calls]
             ELSE IF response.embedding.len # EMBED_DIM
             THEN [outcome |-> "error", error |-> "ValueError: Expected embedding dimension",
                   vectors |-> <<>>, calls |-> calls]
             ELSE [outcome |-> "ok", error |-> NoError,
                   vectors |-> <<response.embedding>>, calls |-> calls]

----------------------------------------------------------------------------
(* The Qdrant collection.  idx says how Qdrant answers during one          *)
(* operation: "up" (every request succeeds), "down" (the connection test   *)
(* raises) or "rejects" (the upsert or search request raises               *)
(* UnexpectedResponse and changes nothing).                                *)

PointStruct(id, vector, payload) == [id |-> id, vector |-> vector, payload |-> payload]

PointIds(pts) == {p.id : p \in pts}

\* client.upsert(collection_name, points): insert or replace by id; of two
\* points of the batch with one id the later one stays
ClientUpsert(pts, batch) ==
    LET n == Len(batch)
        kept == {batch[i] : i \in {j \in 1..n : \A k \in (j + 1)..n : batch[k].id # batch[j].id}}
    IN  {p \in pts : p.id \notin PointIds(kept)} \cup kept

\* what client.search(collection_name, query_vector, limit) may answer: the
\* limit best records in the order of the index, which the model leaves open
SearchAnswers(pts, limit) ==
    LET m == Min(limit, Cardinality(pts))
    IN  {h \in [1..m -> pts] : \A i, j \in 1..m : i # j => h[i] # h[j]}

\* QdrantStorage.__init__
QdrantStorageInit(exists, idx) ==
    IF idx = "down"
    THEN [outcome |-> "error", error |-> "ConnectionError", exists |-> exists,
          calls |-> <<"get_collections">>]
    ELSE [outcome |-> "ok", error |-> NoError, exists |-> TRUE,
          calls |-> IF exists THEN <<"get_collections", "collection_exists">>
                    ELSE <<"get_collections", "collection_exists", "create_collection">>]

\* upsert that pairs ids, vectors and payloads up to the shortest list,
\* without comparing the lengths
QdrantUpsertZip(pts, vectors, ids, payloads, idx) ==
    LET n == Min(Len(vectors), Min(Len(ids), Len(payloads)))
    IN  IF n = 0
        THEN [outcome |-> "error",
              error |-> "ValueError: vectors, ids, and payloads cannot be empty",
              points |-> pts, calls |-> <<>>]
        ELSE IF \E i \in 1..n : vectors[i].len # QDRANT_DIM
        THEN [outcome |-> "error", error |-> "ValueError: Vector has dimension",
              points |-> pts, calls |-> <<>>]
        ELSE IF idx = "rejects"
        THEN [outcome |-> "error", error |-> "UnexpectedResponse",
              points |-> pts, calls |-> <<"upsert">>]
        ELSE [outcome |-> "ok", error |-> NoError,
              points |-> ClientUpsert(pts,
                            [i \in 1..n |-> PointStruct(ids[i], vectors[i], payloads[i])]),
              calls |-> <<"upsert">>]

\* upsert that writes point by point and checks each vector only when its
\* turn comes
QdrantUpsertIncremental(pts, vectors, ids, payloads, idx) ==
    IF vectors = <<>> \/ ids = <<>> \/ payloads = <<>>
    THEN [outcome |-> "error", error |-> "ValueError: vectors, ids, and payloads cannot be empty",
          points |-> pts, calls |-> <<>>]
    ELSE IF Len(vectors) # Len(ids) \/ Len(vectors) # Len(payloads)
    THEN [outcome |-> "error", error |-> "ValueError: Length mismatch",
          points |-> pts, calls |-> <<>>]
    ELSE LET bad == {i \in 1..Len(vectors) : vectors[i].len # QDRANT_DIM}
             n == IF bad = {} THEN Len(vectors)
                  ELSE (CHOOSE i \in bad : \A j \in bad : i <= j) - 1
             batch == [i \in 1..n |-> PointStruct(ids[i], vectors[i], payloads[i])]
         IN  IF idx = "rejects"
             THEN [outcome |-> "error", error |-> "UnexpectedResponse",
                   points |-> pts, calls |-> <<"upsert">>]
             ELSE [outcome |-> IF bad = {} THEN "ok" ELSE "error",
                   error |-> IF bad = {} THEN NoError ELSE "ValueError: Vector has dimension",
                   points |-> ClientUpsert(pts, batch),
                   calls |-> [i \in 1..n |-> "upsert"]]

\* QdrantStorage.upsert(vectors, ids, payloads) on the records pts
QdrantUpsert(pts, vectors, ids, payloads, idx) ==
    IF vectors = <<>> \/ ids = <<>> \/ payloads = <<>>
    THEN [outcome |-> "error", error |-> "ValueError: vectors, ids, and payloads cannot be empty",
          points |-> pts, calls |-> <<>>]
    ELSE IF Len(vectors) # Len(ids) \/ Len(vectors) # Len(payloads)
    THEN [outcome |-> "error", error |-> "ValueError: Length mismatch",
          points |-> pts, calls |-> <<>>]
    ELSE IF \E i \in 1..Len(vectors) : vectors[i].len # QDRANT_DIM
    THEN [outcome |-> "error", error |-> "ValueError: Vector has dimension",
          points |-> pts, calls |-> <<>>]
    ELSE LET batch == [i \in 1..Len(ids) |-> PointStruct(ids[i], vectors[i], payloads[i])]
         IN  IF idx = "rejects"
             THEN [outcome |-> "error", error |-> "UnexpectedResponse",
                   points |-> pts, calls |-> <<"upsert">>]
             ELSE [outcome |-> "ok", error |-> NoError,
                   points |-> ClientUpsert(pts, batch), calls |-> <<"upsert">>]

\* contexts collected by inserting each text at the front
RECURSIVE ContextsReversed(_)
ContextsReversed(results) ==
    IF results = <<>> THEN <<>>
    ELSE LET text == Get(Head(results).payload, "text", <<>>)
         IN  IF text # <<>> THEN ContextsReversed(Tail(results)) \o <<text>>
             ELSE ContextsReversed(Tail(results))

\* the loop of QdrantStorage.search over the results: contexts in the order
\* of the results, sources collected in a set
RECURSIVE Contexts(_)
Contexts(results) ==
    IF results = <<>> THEN <<>>
    ELSE LET text == Get(Head(results).payload, "text", <<>>)
         IN  IF text # <<>> THEN <<text>> \o Contexts(Tail(results))
             ELSE Contexts(Tail(results))

Sources(results) ==
    {Get(results[i].payload, "source", "") :
        i \in {j \in 1..Len(results) :
                /\ Get(results[j].payload, "text", <<>>) # <<>>
                /\ Get(results[j].payload, "source", "") # ""}}

\* list(sources): the elements of the set in some order
ListsOf(S) ==
    {l \in [1..Cardinality(S) -> S] : \A i, j \in 1..Cardinality(S) : i # j => l[i] # l[j]}

\* QdrantStorage.search(query_vector, top_k) on the records pts, the index
\* answering the search request with results: the set of possible returns
QdrantSearch(pts, query_vector, top_k, results, idx) ==
    IF query_vector.len = 0
    THEN {[outcome |-> "error", error |-> "ValueError: query_vector cannot be empty",
           contexts |-> <<>>, sources |-> <<>>, results |-> <<>>, calls |-> <<>>]}
    ELSE IF query_vector.len # QDRANT_DIM
    THEN {[outcome |-> "error", error |-> "ValueError: Query vector has dimension",
           contexts |-> <<>>, sources |-> <<>>, results |-> <<>>, calls |-> <<>>]}
    ELSE IF top_k < 1
    THEN {[outcome |-> "error", error |-> "ValueError: top_k must be at least 1",
           contexts |-> <<>>, sources |-> <<>>, results |-> <<>>, calls |-> <<>>]}
    ELSE IF idx = "rejects"
    THEN {[outcome |-> "error", error |-> "UnexpectedResponse",
           contexts |-> <<>>, sources |-> <<>>, results |-> <<>>, calls |-> <<"search">>]}
    ELSE {[outcome |-> "ok", error |-> NoError,
           contexts |-> Contexts(results), sources |-> srcs, results |-> results,
           calls |-> <<"search">>] : srcs \in ListsOf(Sources(results))}

----------------------------------------------------------------------------
(* The pipelines of main.py *)

\* uuid.uuid5(namespace, name): a name-based identifier, a function of the
\* namespace and the name that gives distinct names distinct identifiers
Uuid5(namespace, name) == [namespace |-> namespace, name |-> name]

\* chunk ids that leave the source_id out: the chunk index alone
ChunkIdNoSource(source_id, i) == Uuid5("NAMESPACE_URL", ToString(i))

\* an id that leaves the chunk index out of the name
ChunkIdNoIndex(source_id, i) == Uuid5("NAMESPACE_URL", source_id)

\* str(uuid.uuid5(uuid.NAMESPACE_URL, f"{source_id}:{i}")), i counted from 0
ChunkId(source_id, i) == Uuid5("NAMESPACE_URL", source_id \o ":" \o ToString(i))

\* {"source": source_id, "text": chunks[i]}, i counted from 0
ChunkPayload(source_id, chunks, i) == [source |-> source_id, text |-> chunks[i + 1]]

\* ids numbered on from the number of records already in the collection
UpsertChunksAutoIds(pts, exists, chunks, source_id, vecs, idx) ==
    LET ids == [k \in 1..Len(chunks) |-> ChunkId(source_id, Cardinality(pts) + k - 1)]
        payloads == [k \in 1..Len(chunks) |-> ChunkPayload(source_id, chunks, k - 1)]
        store == QdrantStorageInit(exists, idx)
    IN  IF store.outcome = "error"
        THEN [outcome |-> "error", error |-> store.error, ingested |-> 0, points |-> pts,
              exists |-> store.exists, index_calls |-> store.calls]
        ELSE
        LET u == QdrantUpsert(pts, vecs, ids, payloads, idx)
        IN  [outcome |-> u.outcome, error |-> u.error,
             ingested |-> IF u.outcome = "ok" THEN Len(chunks) ELSE 0,
             points |-> u.points, exists |-> store.exists,
             index_calls |-> store.calls \o u.calls]

\* upsert_embeddings, after the vectors are there: ids, payloads, the store
\* and its upsert
UpsertChunks(pts, exists, chunks, source_id, vecs, idx) ==
    LET ids == [k \in 1..Len(chunks) |-> ChunkId(source_id, k - 1)]
        payloads == [k \in 1..Len(chunks) |-> ChunkPayload(source_id, chunks, k - 1)]
        store == QdrantStorageInit(exists, idx)
    IN  IF store.outcome = "error"
        THEN [outcome |-> "error", error |-> store.error, ingested |-> 0, points |-> pts,
              exists |-> store.exists, index_calls |-> store.calls]
        ELSE
        LET u == QdrantUpsert(pts, vecs, ids, payloads, idx)
        IN  [outcome |-> u.outcome, error |-> u.error,
             ingested |-> IF u.outcome = "ok" THEN Len(chunks) ELSE 0,
             points |-> u.points, exists |-> store.exists,
             index_calls |-> store.calls \o u.calls]

\* ingestion that embeds and upserts chunk by chunk
RECURSIVE StreamChunks(_, _, _, _, _, _, _, _, _)
StreamChunks(pts, exists, chunks, source_id, svc, idx, k, icalls, ecalls) ==
    IF k > Len(chunks)
    THEN [outcome |-> "ok", error |-> NoError, ingested |-> Len(chunks), points |-> pts,
          exists |-> exists, index_calls |-> icalls, embed_calls |-> ecalls]
    ELSE
    LET e == embed_texts(<<chunks[k]>>, [svc EXCEPT !.fail_at = IF @ = k THEN 1 ELSE 0])
        store == QdrantStorageInit(exists, idx)
        u == QdrantUpsert(pts, e.vectors, <<ChunkId(source_id, k - 1)>>,
                          <<ChunkPayload(source_id, chunks, k - 1)>>, idx)
    IN  IF e.outcome = "error"
        THEN [outcome |-> "error", error |-> e.error, ingested |-> 0, points |-> pts,
              exists |-> exists, index_calls |-> icalls, embed_calls |-> ecalls \o e.calls]
        ELSE IF store.outcome = "error"
        THEN [outcome |-> "error", error |-> store.error, ingested |-> 0, points |-> pts,
              exists |-> exists, index_calls |-> icalls \o store.calls,
              embed_calls |-> ecalls \o e.calls]
        ELSE IF u.outcome = "error"
        THEN [outcome |-> "error", error |-> u.error, ingested |-> 0, points |-> pts,
              exists |-> TRUE, index_calls |-> icalls \o store.calls \o u.calls,
              embed_calls |-> ecalls \o e.calls]
        ELSE StreamChunks(u.points, TRUE, chunks, source_id, svc, idx, k + 1,
                          icalls \o store.calls \o u.calls, ecalls \o e.calls)

upsert_embeddings_streaming(pts, exists, chunks, source_id, svc, idx) ==
    IF chunks = <<>>
    THEN [outcome |-> "error", error |-> "ValueError: No chunks provided for embedding",
          ingested |-> 0, points |-> pts, exists |-> exists,
          index_calls |-> <<>>, embed_calls |-> <<>>]
    ELSE StreamChunks(pts, exists, chunks, source_id, svc, idx, 1, <<>>, <<>>)

\* upsert_embeddings(chunks, source_id) on the records pts
upsert_embeddings(pts, exists, chunks, source_id, svc, idx) ==
    IF chunks = <<>>
    THEN [outcome |-> "error", error |-> "ValueError: No chunks provided for embedding",
          ingested |-> 0, points |-> pts, exists |-> exists,
          index_calls |-> <<>>, embed_calls |-> <<>>]
    ELSE
    LET e == embed_texts(chunks, svc)
        vecs == e.vectors
    IN  IF e.outcome = "error"
        THEN [outcome |-> "error", error |-> e.error, ingested |-> 0, points |-> pts,
              exists |-> exists, index_calls |-> <<>>, embed_calls |-> e.calls]
        ELSE IF vecs = <<>> \/ Len(vecs) # Len(chunks)
        THEN [outcome |-> "error", error |-> "ValueError: Embedding failed", ingested |-> 0,
              points |-> pts, exists |-> exists, index_calls |-> <<>>, embed_calls |-> e.calls]
        ELSE LET u == UpsertChunks(pts, exists, chunks, source_id, vecs, idx)
             IN  [outcome |-> u.outcome, error |-> u.error, ingested |-> u.ingested,
                  points |-> u.points, exists |-> u.exists,
                  index_calls |-> u.index_calls, embed_calls |-> e.calls]

\* a search_contexts that treats an empty result as a failure
SearchResultOfRaises(found) ==
    IF found.contexts = <<>>
    THEN [outcome |-> "error", error |-> "ValueError: No contexts found",
          contexts |-> <<>>, sources |-> <<>>]
    ELSE [outcome |-> "ok", error |-> NoError,
          contexts |-> found.contexts, sources |-> found.sources]

\* the end of search_contexts: what it returns for what the store found
SearchResultOf(found) ==
    IF found.contexts = <<>>
    THEN [outcome |-> "ok", error |-> NoError, contexts |-> <<>>, sources |-> <<>>]
    ELSE [outcome |-> "ok", error |-> NoError,
          contexts |-> found.contexts, sources |-> found.sources]

\* search_contexts(question, top_k) on the records pts, the index answering
\* the search request with results: the set of possible returns
search_contexts(pts, exists, question, top_k, svc, idx, results) ==
    IF ~NonBlank(question)
    THEN {[outcome |-> "error", error |-> "ValueError: Question cannot be empty",
           contexts |-> <<>>, sources |-> <<>>, results |-> <<>>, exists |-> exists,
           index_calls |-> <<>>, embed_calls |-> <<>>]}
    ELSE
    LET e == embed_texts(<<question>>, svc)
        query_vecs == e.vectors
    IN  IF e.outcome = "error"
        THEN {[outcome |-> "error", error |-> e.error,
               contexts |-> <<>>, sources |-> <<>>, results |-> <<>>, exists |-> exists,
               index_calls |-> <<>>, embed_calls |-> e.calls]}
        ELSE IF query_vecs = <<>>
        THEN {[outcome |-> "error", error |-> "ValueError: Failed to embed question",
               contexts |-> <<>>, sources |-> <<>>, results |-> <<>>, exists |-> exists,
               index_calls |-> <<>>, embed_calls |-> e.calls]}
        ELSE
        LET store == QdrantStorageInit(exists, idx)
        IN  IF store.outcome = "error"
            THEN {[outcome |-> "error", error |-> store.error,
                   contexts |-> <<>>, sources |-> <<>>, results |-> <<>>,
                   exists |-> store.exists,
                   index_calls |-> store.calls, embed_calls |-> e.calls]}
            ELSE {IF found.outcome = "error"
                  THEN [outcome |-> "error", error |-> found.error,
                        contexts |-> <<>>, sources |-> <<>>, results |-> <<>>,
                        exists |-> store.exists,
                        index_calls |-> store.calls \o found.calls, embed_calls |-> e.calls]
                  ELSE [outcome |-> SearchResultOf(found).outcome,
                        error |-> SearchResultOf(found).error,
                        contexts |-> SearchResultOf(found).contexts,
                        sources |-> SearchResultOf(found).sources,
                        results |-> found.results, exists |-> store.exists,
                        index_calls |-> store.calls \o found.calls, embed_calls |-> e.calls] :
                     found \in QdrantSearch(pts, query_vecs[1], top_k, results, idx)}

----------------------------------------------------------------------------
(* Loading a PDF.  The file system is a table from paths to what is found  *)
(* there: whether the file exists, its suffix, and the page texts that     *)
(* PDFReader extracts from it.                                             *)

\* the directory the UI runs in, and Path(p).resolve() there
Cwd == "/srv/ragent"
Resolve(p) == Cwd \o "/" \o p

\* the files a user uploads, by name; save_uploaded_pdf writes them to
\* uploads/<name>
UploadNames == {"a.pdf", "scan.pdf"}
UploadPath(name) == "uploads/" \o name

FileSystem ==
    [p \in {"a.pdf", "scan.pdf", "notes.txt", "gone.pdf"}
            \cup {Resolve(UploadPath(name)) : name \in UploadNames} |->
        CASE p \in {"a.pdf", Resolve(UploadPath("a.pdf"))}
                -> [exists |-> TRUE, suffix |-> ".pdf", docs |-> <<TextA, TextBlank, TextB>>]
          [] p \in {"scan.pdf", Resolve(UploadPath("scan.pdf"))}
                -> [exists |-> TRUE, suffix |-> ".pdf", docs |-> <<TextBlank>>]
          [] p = "notes.txt" -> [exists |-> TRUE, suffix |-> ".txt", docs |-> <<TextA>>]
          [] p = "gone.pdf"  -> [exists |-> FALSE, suffix |-> ".pdf", docs |-> <<>>]]

\* the paths given to the loader directly
Paths == {"a.pdf", "scan.pdf", "notes.txt", "gone.pdf"}

\* splitter.split_text(t) for a text no longer than one chunk
SplitText(t) == <<t>>

RECURSIVE SplitAll(_)
SplitAll(texts) ==
    IF texts = <<>> THEN <<>> ELSE SplitText(Head(texts)) \o SplitAll(Tail(texts))

\* load_and_chunk_pdf(path)
load_and_chunk_pdf(path) ==
    LET file == FileSystem[path]
        texts == SelectSeq(file.docs, NonBlank)
        chunks == SplitAll(texts)
    IN  IF ~file.exists
        THEN [outcome |-> "error", error |-> "FileNotFoundError", chunks |-> <<>>]
        ELSE IF file.suffix # ".pdf"
        THEN [outcome |-> "error", error |-> "ValueError: File must be a PDF", chunks |-> <<>>]
        ELSE IF file.docs = <<>>
        THEN [outcome |-> "error", error |-> "ValueError: No content extracted from PDF",
              chunks |-> <<>>]
        ELSE IF texts = <<>>
        THEN [outcome |-> "error", error |-> "ValueError: No text content found in PDF",
              chunks |-> <<>>]
        ELSE IF chunks = <<>>
        THEN [outcome |-> "error", error |-> "ValueError: No chunks generated from PDF",
              chunks |-> <<>>]
        ELSE [outcome |-> "ok", error |-> NoError, chunks |-> chunks]

\* load_pdf_chunks(pdf_path, source_id)
load_pdf_chunks(pdf_path, source_id) ==
    IF ~FileSystem[pdf_path].exists
    THEN [outcome |-> "error", error |-> "FileNotFoundError", chunks |-> <<>>,
          source_id |-> source_id]
    ELSE LET sid == IF source_id = "" THEN pdf_path ELSE source_id
             l == load_and_chunk_pdf(pdf_path)
         IN  IF l.outcome = "error"
             THEN [outcome |-> "error", error |-> l.error, chunks |-> <<>>, source_id |-> sid]
             ELSE IF l.chunks = <<>>
             THEN [outcome |-> "error", error |-> "ValueError: No chunks extracted from PDF",
                   chunks |-> <<>>, source_id |-> sid]
             ELSE [outcome |-> "ok", error |-> NoError, chunks |-> l.chunks, source_id |-> sid]

\* ragent_inngest_pdf(ctx) with ctx.event.data = data, each step run once
ragent_inngest_pdf(pts, exists, data, svc, idx) ==
    LET pdf_path == Get(data, "pdf_path", "")
        source_id == Get(data, "source_id", pdf_path)
    IN  IF pdf_path = ""
        THEN [outcome |-> "error", error |-> "ValueError: pdf_path is required in event data",
              ingested |-> 0, points |-> pts, exists |-> exists,
              index_calls |-> <<>>, embed_calls |-> <<>>]
        ELSE
        LET chunks_and_src == load_pdf_chunks(pdf_path, source_id)
        IN  IF chunks_and_src.outcome = "error"
            THEN [outcome |-> "error", error |-> chunks_and_src.error,
                  ingested |-> 0, points |-> pts, exists |-> exists,
                  index_calls |-> <<>>, embed_calls |-> <<>>]
            ELSE upsert_embeddings(pts, exists, chunks_and_src.chunks,
                                   chunks_and_src.source_id, svc, idx)

\* generate_answer_with_gemini(question, contexts); gem is what the model
\* answers: "text", "blank" (an empty answer) or "raise"
generate_answer_with_gemini(question, contexts, gem) ==
    IF contexts = <<>>
    THEN [outcome |-> "ok", error |-> NoError, answer |-> "no relevant information"]
    ELSE IF gem = "raise"
    THEN [outcome |-> "error", error |-> "Exception: generate_content failed", answer |-> ""]
    ELSE IF gem = "blank"
    THEN [outcome |-> "error", error |-> "ValueError: Generated answer is empty", answer |-> ""]
    ELSE [outcome |-> "ok", error |-> NoError, answer |-> "answer"]

NoSearch(outcome, error, exists) ==
    [outcome |-> outcome, error |-> error, contexts |-> <<>>, sources |-> <<>>,
     results |-> <<>>, exists |-> exists, index_calls |-> <<>>, embed_calls |-> <<>>,
     answer |-> ""]

\* ragent_query_pdf_ai(ctx) with ctx.event.data = data, each step run once:
\* the set of possible returns
ragent_query_pdf_ai(pts, exists, data, svc, idx, results, gem) ==
    LET question == Get(data, "question", <<>>)
        top_k == Get(data, "top_k", DEFAULT_TOP_K)
    IN  IF ~NonBlank(question)
        THEN {NoSearch("error", "ValueError: question is required and cannot be empty", exists)}
        ELSE IF top_k < 1 \/ top_k > MAX_TOP_K
        THEN {NoSearch("error", "ValueError: top_k must be between 1 and 20", exists)}
        ELSE {IF found.outcome = "error"
              THEN [found EXCEPT !.contexts = <<>>, !.sources = <<>>] @@ [answer |-> ""]
              ELSE LET g == generate_answer_with_gemini(question, found.contexts, gem)
                   IN  [found EXCEPT !.outcome = g.outcome, !.error = g.error]
                           @@ [answer |-> g.answer] :
                found \in search_contexts(pts, exists, question, top_k, svc, idx, results)}

----------------------------------------------------------------------------------------------------------------------------------------
(* Inputs *)

SourceIds == {"doc-A", "doc-B"}
ChunkTexts == {TextBlank, TextA}
EmbedInputs == {TextEmpty, TextBlank, TextA, TextPadded}
Questions == {TextBlank, TextA}
TopKs == {0, 1, 2, MAX_TOP_K + 1}

\* how the services answer during one ingestion of up to n chunks
Envs(n) ==
    [svc : SvcAnswers(n), idx : {"up"}] \cup [svc : {SvcOk}, idx : {"down", "rejects"}]

GeminiAnswers == {"text", "blank", "raise"}

\* how the services answer during one query: the embedding service, Qdrant
\* (with the results of the search request, if it gets that far) and Gemini
QueryEnvs(pts, top_k) ==
    [svc : SvcAnswers(1) \ {SvcOk}, idx : {"up"}, results : {<<>>}, gem : {"text"}]
        \cup [svc : {SvcOk}, idx : {"down", "rejects"}, results : {<<>>}, gem : {"text"}]
        \cup [svc : {SvcOk}, idx : {"up"}, results : SearchAnswers(pts, top_k),
              gem : GeminiAnswers]

\* event data of ragent/inngest_pdf
IngestEvents ==
    [pdf_path : Paths, source_id : {"doc-A"}]
        \cup [pdf_path : {"a.pdf", ""}]
        \cup {[pdf_path |-> "a.pdf", source_id |-> ""], [source_id |-> "doc-A"]}

\* event data of ragent/query_pdf_ai
QueryEvents ==
    [question : Questions, top_k : TopKs] \cup [question : Questions] \cup [top_k : {1}]

\* vectors, ids and payloads given to QdrantStorage.upsert
VectorOk == [len |-> QDRANT_DIM, of |-> TextA, task |-> "retrieval_document"]
VectorWrong == [len |-> WrongDim, of |-> TextA, task |-> "retrieval_document"]
VectorEmpty == [len |-> 0, of |-> TextA, task |-> "retrieval_query"]

\* lists of vectors with at most one of a wrong length, at any position
UpsertVectors ==
    {[k \in 1..n |-> IF k = bad THEN VectorWrong ELSE VectorOk] :
        <<n, bad>> \in {<<m, b>> \in (0..MaxBatch) \X (0..MaxBatch) : b <= m}}

UpsertIds ==
    {[k \in 1..n |-> ChunkId("doc-A", k - 1)] : n \in 0..MaxBatch}
        \cup {[k \in 1..2 |-> ChunkId("doc-A", 0)]}

UpsertPayloads ==
    {[k \in 1..n |-> [source |-> "doc-B", text |-> IF k = 1 THEN TextB ELSE TextA]] :
        n \in 0..MaxBatch}

\* records of the collection left by earlier calls
StoreTwoSources ==
    LET a == upsert_embeddings({}, FALSE, <<TextA, TextB>>, "doc-A", SvcOk, "up")
    IN  upsert_embeddings(a.points, TRUE, <<TextB>>, "doc-B", SvcOk, "up").points

StoreOddPayloads ==
    QdrantUpsert({}, <<VectorOk, VectorOk, VectorOk>>,
                 <<ChunkId("doc-A", 0), ChunkId("doc-A", 1), ChunkId("doc-A", 2)>>,
                 <<[source |-> "doc-A", text |-> TextA], [source |-> "doc-B"],
                   [text |-> TextB]>>, "up").points

QueryStores == {{}, StoreTwoSources, StoreOddPayloads}

StoreEarlier ==
    LET a == upsert_embeddings({}, FALSE, <<TextA, TextA>>, "doc-A", SvcOk, "up")
    IN  upsert_embeddings(a.points, TRUE, <<TextA>>, "doc-B", SvcOk, "up").points

----------------------------------------------------------------------------
(* Actions: one call each *)

Call(op, args, outcome, error, result, pts, exists, icalls, ecalls) ==
    /\ nops' = nops + 1
    /\ pre' = points
    /\ points' = pts
    /\ collection_exists' = exists
    /\ last' = [op |-> op, args |-> args, outcome |-> outcome, error |-> error,
                result |-> result,
                repeat |-> (last.op = op /\ last.args = args /\ last.outcome = "ok")]
    /\ index_calls' = icalls
    /\ embed_calls' = ecalls
    /\ procs' = procs

\* a call made directly: the UI and the event server are not involved
Step(op, args, outcome, error, result, pts, exists, icalls, ecalls) ==
    /\ Call(op, args, outcome, error, result, pts, exists, icalls, ecalls)
    /\ UNCHANGED <<uploads, inngest>>

EmbedTexts ==
    /\ nops < MaxOps
    /\ \E texts \in SeqsUpTo(EmbedInputs, MaxChunks), svc \in SvcAnswers(MaxChunks) :
        LET r == embed_texts(texts, svc)
        IN  Step("embed_texts", [texts |-> texts], r.outcome, r.error,
                 [vectors |-> r.vectors], points, collection_exists, <<>>, r.calls)

EmbedQuery ==
    /\ nops < MaxOps
    /\ \E query \in EmbedInputs, svc \in SvcAnswers(1) :
        LET r == embed_query(query, svc)
        IN  Step("embed_query", [query |-> query], r.outcome, r.error,
                 [vectors |-> r.vectors], points, collection_exists, <<>>, r.calls)

StoreConstruct ==
    /\ nops < MaxOps
    /\ \E idx \in {"up", "down"} :
        LET r == QdrantStorageInit(collection_exists, idx)
        IN  Step("QdrantStorage", [idx |-> idx], r.outcome, r.error, [none |-> TRUE],
                 points, r.exists, r.calls, <<>>)

StoreUpsert ==
    /\ nops < MaxOps
    /\ collection_exists
    /\ \E vectors \in UpsertVectors, ids \in UpsertIds, payloads \in UpsertPayloads,
          idx \in {"up", "rejects"} :
        LET r == QdrantUpsert(points, vectors, ids, payloads, idx)
        IN  Step("upsert", [vectors |-> vectors, ids |-> ids, payloads |-> payloads],
                 r.outcome, r.error, [none |-> TRUE],
                 r.points, collection_exists, r.calls, <<>>)

StoreSearch ==
    /\ nops < MaxOps
    /\ collection_exists
    /\ \E query_vector \in {VectorOk, VectorWrong, VectorEmpty},
          top_k \in {0, 1, 2, DEFAULT_TOP_K}, idx \in {"up", "rejects"} :
        \E results \in IF idx = "up" THEN SearchAnswers(points, top_k) ELSE {<<>>} :
            \E r \in QdrantSearch(points, query_vector, top_k, results, idx) :
                Step("search", [query_vector |-> query_vector, top_k |-> top_k],
                     r.outcome, r.error,
                     [contexts |-> r.contexts, sources |-> r.sources, results |-> r.results],
                     points, collection_exists, r.calls, <<>>)

UpsertEmbeddings ==
    /\ nops < MaxOps
    /\ \E chunks \in SeqsUpTo(ChunkTexts, MaxChunks), source_id \in SourceIds,
          env \in Envs(MaxChunks) :
        LET r == upsert_embeddings(points, collection_exists, chunks, source_id,
                                   env.svc, env.idx)
        IN  Step("upsert_embeddings", [chunks |-> chunks, source_id |-> source_id],
                 r.outcome, r.error, [ingested |-> r.ingested],
                 r.points, r.exists, r.index_calls, r.embed_calls)

IngestPdf ==
    /\ nops < MaxOps
    /\ \E data \in IngestEvents, env \in Envs(MaxChunks) :
        LET r == ragent_inngest_pdf(points, collection_exists, data, env.svc, env.idx)
        IN  Step("ragent_inngest_pdf", [data |-> data],
                 r.outcome, r.error, [ingested |-> r.ingested],
                 r.points, r.exists, r.index_calls, r.embed_calls)

SearchContexts ==
    /\ nops < MaxOps
    /\ \E question \in Questions \cup {TextEmpty}, top_k \in TopKs \cup {DEFAULT_TOP_K} :
        \E env \in QueryEnvs(points, top_k) :
            \E r \in search_contexts(points, collection_exists, question, top_k,
                                     env.svc, env.idx, env.results) :
                Step("search_contexts", [question |-> question, top_k |-> top_k],
                     r.outcome, r.error,
                     [contexts |-> r.contexts, sources |-> r.sources, results |-> r.results],
                     points, r.exists, r.index_calls, r.embed_calls)

QueryPdfAi ==
    /\ nops < MaxOps
    /\ \E data \in QueryEvents :
        \E env \in QueryEnvs(points, Get(data, "top_k", DEFAULT_TOP_K)) :
            \E r \in ragent_query_pdf_ai(points, collection_exists, data,
                                         env.svc, env.idx, env.results, env.gem) :
                Step("ragent_query_pdf_ai", [data |-> data],
                     r.outcome, r.error,
                     [answer |-> r.answer, sources |-> r.sources,
                      num_contexts |-> Len(r.contexts), results |-> r.results],
                     points, r.exists, r.index_calls, r.embed_calls)

----------------------------------------------------------------------------
(* Specifications *)

NoCall == [op |-> "none", args |-> <<>>, outcome |-> "none", error |-> NoError,
           result |-> <<>>, repeat |-> FALSE]

NoEvents == [sent |-> 0, pending |-> {}, delivered |-> {}, runs |-> {}]

InitWith(stores) ==
    /\ points \in stores
    /\ collection_exists = (points # {})
    /\ pre = points
    /\ last = NoCall
    /\ index_calls = <<>>
    /\ embed_calls = <<>>
    /\ nops = 0
    /\ procs = <<>>
    /\ uploads = {}
    /\ inngest = NoEvents

\* ingestion: the pipeline and its event handler, from an empty deployment
\* or from one that has ingested two documents before
Init == InitWith({{}, StoreEarlier})
Next == UpsertEmbeddings \/ IngestPdf
Spec == Init /\ [][Next]_vars

\* the vector store called directly
InitStore == InitWith({{}, StoreTwoSources})
NextStore == StoreConstruct \/ StoreUpsert
SpecStore == InitStore /\ [][NextStore]_vars

\* retrieval: the pipeline, its event handler and the store's search
InitQuery == InitWith(QueryStores)
NextQuery == SearchContexts \/ QueryPdfAi \/ StoreSearch
SpecQuery == InitQuery /\ [][NextQuery]_vars

\* the embedder called directly
InitEmbed == InitWith({{}})
NextEmbed == EmbedTexts \/ EmbedQuery
SpecEmbed == InitEmbed /\ [][NextEmbed]_vars

----------------------------------------------------------------------------
(* Two ingestions running at the same time.  Each one runs                 *)
(* upsert_embeddings for its own document; the collection in Qdrant is all *)
(* they share, and Qdrant serves one request at a time, so a step is what  *)
(* one ingestion does up to and including its next request to Qdrant.      *)

Procs == {1, 2}

\* the source_ids of the two documents: distinct
ConcSourceIds == {<<"doc-A", "doc-B">>, <<"doc-A", "doc-A:0">>}

\* an ingestion at the start of upsert_embeddings(chunks, source_id); svc and
\* idx record how the services answered it, created whether it created the
\* collection
NewIngestion(chunks, source_id) ==
    [pc |-> "embed", chunks |-> chunks, source_id |-> source_id, vecs |-> <<>>,
     svc |-> SvcOk, idx |-> "up", created |-> FALSE, error |-> NoError]

Raise(proc, error) == [proc EXCEPT !.pc = "failed", !.error = error]

ConcStep(p, proc, pts, exists) ==
    /\ procs' = [procs EXCEPT ![p] = proc]
    /\ points' = pts
    /\ collection_exists' = exists
    /\ UNCHANGED <<pre, last, index_calls, embed_calls, nops, uploads, inngest>>

\* upsert_embeddings up to the vectors: the chunks are embedded and counted
ConcEmbed(p) ==
    /\ procs[p].pc = "embed"
    /\ \E svc \in SvcAnswers(MaxChunks) :
        LET me == procs[p]
            e == embed_texts(me.chunks, svc)
            vecs == e.vectors
        IN  IF me.chunks = <<>>
            THEN ConcStep(p, Raise(me, "ValueError: No chunks provided for embedding"),
                          points, collection_exists)
            ELSE IF e.outcome = "error"
            THEN ConcStep(p, Raise([me EXCEPT !.svc = svc], e.error),
                          points, collection_exists)
            ELSE IF vecs = <<>> \/ Len(vecs) # Len(me.chunks)
            THEN ConcStep(p, Raise(me, "ValueError: Embedding failed"),
                          points, collection_exists)
            ELSE ConcStep(p, [me EXCEPT !.pc = "connect", !.vecs = vecs],
                          points, collection_exists)

\* QdrantStorage(): the connection test client.get_collections()
ConcConnect(p) ==
    /\ procs[p].pc = "connect"
    /\ \E idx \in {"up", "down"} :
        LET me == procs[p]
        IN  IF idx = "down"
            THEN ConcStep(p, Raise([me EXCEPT !.idx = idx], "ConnectionError"),
                          points, collection_exists)
            ELSE ConcStep(p, [me EXCEPT !.pc = "check"], points, collection_exists)

\* QdrantStorage(): client.collection_exists(collection)
ConcCheck(p) ==
    /\ procs[p].pc = "check"
    /\ ConcStep(p, [procs[p] EXCEPT !.pc = IF collection_exists THEN "upsert" ELSE "create"],
                points, collection_exists)

\* QdrantStorage(): client.create_collection(...), sent when the collection
\* was found absent.  Qdrant refuses to create a collection that exists, and
\* the constructor turns every exception into ConnectionError.
ConcCreate(p) ==
    /\ procs[p].pc = "create"
    /\ IF collection_exists
       THEN ConcStep(p, Raise(procs[p], "ConnectionError: collection already exists"),
                     points, collection_exists)
       ELSE ConcStep(p, [procs[p] EXCEPT !.pc = "upsert", !.created = TRUE], points, TRUE)

\* store.upsert(vecs, ids, payloads) with the ids and payloads of the chunks
ConcUpsert(p) ==
    /\ procs[p].pc = "upsert"
    /\ \E idx \in {"up", "rejects"} :
        LET me == procs[p]
            ids == [k \in 1..Len(me.chunks) |-> ChunkId(me.source_id, k - 1)]
            payloads == [k \in 1..Len(me.chunks) |-> ChunkPayload(me.source_id, me.chunks, k - 1)]
            u == QdrantUpsert(points, me.vecs, ids, payloads, idx)
        IN  IF u.outcome = "error"
            THEN ConcStep(p, Raise([me EXCEPT !.idx = idx], u.error),
                          points, collection_exists)
            ELSE ConcStep(p, [me EXCEPT !.pc = "done"], u.points, collection_exists)

\* two ingestions of documents with distinct source_ids start together, on
\* a fresh deployment or on one that has ingested documents before
InitConc ==
    /\ points \in {{}, StoreEarlier}
    /\ collection_exists = (points # {})
    /\ pre = points
    /\ last = NoCall
    /\ index_calls = <<>>
    /\ embed_calls = <<>>
    /\ nops = 0
    /\ uploads = {}
    /\ inngest = NoEvents
    /\ \E ids \in ConcSourceIds, c1, c2 \in SeqsUpTo(ChunkTexts, MaxChunks) :
        procs = <<NewIngestion(c1, ids[1]), NewIngestion(c2, ids[2])>>

NextConc ==
    \E p \in Procs :
        ConcEmbed(p) \/ ConcConnect(p) \/ ConcCheck(p) \/ ConcCreate(p) \/ ConcUpsert(p)

SpecConc == InitConc /\ [][NextConc]_vars

----------------------------------------------------------------------------
(* The UI and the event server.  The UI saves an uploaded file and sends   *)
(* an event, or sends a question as an event; the event server delivers    *)
(* each event to the functions whose trigger is the name of the event and  *)
(* runs them.                                                              *)

\* the functions served by the app, with the event that triggers each
INGEST_FN == [fn_id |-> "RAGent: Inngest PDF", trigger |-> "ragent/inngest_pdf"]
QUERY_FN == [fn_id |-> "RAGent: Query PDF", trigger |-> "ragent/query_pdf_ai"]
Functions == {INGEST_FN, QUERY_FN}

\* inngest.Event(name, data), with the id the server gives it
Event(id, name, data) == [id |-> id, name |-> name, data |-> data]

\* client.send(event)
Send(name, data) ==
    [inngest EXCEPT !.sent = @ + 1,
                    !.pending = @ \cup {Event(inngest.sent + 1, name, data)}]

\* the event of send_rag_ingest_event(pdf_path) for the saved file
IngestEventData(name) ==
    [pdf_path |-> Resolve(UploadPath(name)), source_id |-> name]

\* what a user types into the question field, and the Top-K field (1..20)
TypedQuestions == {TextBlank, TextA, TextPadded}
TypedTopKs == {1, DEFAULT_TOP_K, MAX_TOP_K}

\* the upload section: the file is saved and the ingest event sent
Upload ==
    /\ inngest.sent < MaxEvents
    /\ \E name \in UploadNames :
        /\ uploads' = uploads \cup {name}
        /\ inngest' = Send("ragent/ingest_pdf", IngestEventData(name))
    /\ UNCHANGED <<points, collection_exists, pre, last, index_calls, embed_calls, nops,
                   procs>>

\* the query form, submitted: a question that is not blank is sent, stripped
Ask ==
    /\ inngest.sent < MaxEvents
    /\ \E question \in TypedQuestions, top_k \in TypedTopKs :
        /\ NonBlank(question)
        /\ inngest' = Send("ragent/query_pdf_ai",
                           [question |-> Strip(question), top_k |-> top_k])
    /\ UNCHANGED <<points, collection_exists, pre, last, index_calls, embed_calls, nops,
                   procs, uploads>>

\* the run of a function started for event e
Run(f, e) == [fn_id |-> f.fn_id, event |-> e.id, data |-> e.data]

\* the event server delivers a pending event: every function whose trigger
\* is the name of the event is run with the event; an event that triggers
\* no function is only recorded
Deliver ==
    \E e \in inngest.pending :
        LET fns == {f \in Functions : f.trigger = e.name}
        IN  /\ inngest' = [inngest EXCEPT !.pending = @ \ {e},
                                          !.delivered = @ \cup {e},
                                          !.runs = @ \cup {Run(f, e) : f \in fns}]
            /\ uploads' = uploads
            /\ IF fns = {}
               THEN UNCHANGED <<points, collection_exists, pre, last, index_calls,
                                embed_calls, nops, procs>>
               ELSE IF INGEST_FN \in fns
               THEN \E env \in Envs(MaxChunks) :
                        LET r == ragent_inngest_pdf(points, collection_exists, e.data,
                                                    env.svc, env.idx)
                        IN  Call("ragent_inngest_pdf", [data |-> e.data],
                                 r.outcome, r.error, [ingested |-> r.ingested],
                                 r.points, r.exists, r.index_calls, r.embed_calls)
               ELSE \E env \in QueryEnvs(points, Get(e.data, "top_k", DEFAULT_TOP_K)) :
                        \E r \in ragent_query_pdf_ai(points, collection_exists, e.data,
                                                     env.svc, env.idx, env.results, env.gem) :
                            Call("ragent_query_pdf_ai", [data |-> e.data],
                                 r.outcome, r.error,
                                 [answer |-> r.answer, sources |-> r.sources,
                                  num_contexts |-> Len(r.contexts), results |-> r.results],
                                 points, r.exists, r.index_calls, r.embed_calls)

\* the UI and the app with the event server between them, on a fresh
\* deployment or on one that has ingested documents before
InitUpload == InitWith({{}, StoreEarlier})
NextUpload == Upload \/ Ask \/ Deliver
SpecUpload == InitUpload /\ [][NextUpload]_vars

----------------------------------------------------------------------------
(* Properties of ingestion (Spec) *)

Ingestions == {"upsert_embeddings", "ragent_inngest_pdf"}

\* the chunks and the source id that the last ingestion worked on; of the
\* files only a.pdf has text, on the pages 1 and 3
IngestedChunks ==
    IF last.op = "upsert_embeddings" THEN last.args.chunks ELSE <<TextA, TextB>>

IngestedSource ==
    IF last.op = "upsert_embeddings" THEN last.args.source_id
    ELSE IF "source_id" \in DOMAIN last.args.data /\ last.args.data.source_id # ""
    THEN last.args.data.source_id
    ELSE last.args.data.pdf_path

\* C1: an ingestion that repeats the successful ingestion just before it
\* (same chunks, same source_id) leaves the set of record ids and the number
\* of records as the first run left them.
C1_ReingestAddsNothing ==
    (last.op \in Ingestions /\ last.repeat)
        => /\ PointIds(points) = PointIds(pre)
           /\ Cardinality(points) = Cardinality(pre)

C1_Witness ==
    /\ last.op = "upsert_embeddings"
    /\ last.repeat
    /\ last.outcome = "ok"
    /\ Len(last.args.chunks) = 2
    /\ Cardinality(points) > 2

\* C2: a successful ingestion of n >= 1 chunks with source_id s into an empty
\* store reports ingested = n and leaves exactly n records; their ids are the
\* uuid5 names "s:0" .. "s:n-1" and record i carries {source: s, text: chunk i}.
C2_IngestIntoEmptyStore ==
    (last.op \in Ingestions /\ last.outcome = "ok" /\ pre = {})
        => LET n == Len(IngestedChunks)
               s == IngestedSource
               name(i) == s \o ":" \o ToString(i)
           IN  /\ n >= 1
               /\ last.op = "ragent_inngest_pdf" => last.args.data.pdf_path = "a.pdf"
               /\ last.result.ingested = n
               /\ Cardinality(points) = n
               /\ PointIds(points) =
                    {[namespace |-> "NAMESPACE_URL", name |-> name(i)] : i \in 0..(n - 1)}
               /\ \A p \in points : \E i \in 0..(n - 1) :
                    /\ p.id.name = name(i)
                    /\ p.payload = [source |-> s, text |-> IngestedChunks[i + 1]]
                    /\ p.vector.len = QDRANT_DIM

C2_Witness ==
    /\ last.op = "upsert_embeddings"
    /\ last.outcome = "ok"
    /\ pre = {}
    /\ last.args = [chunks |-> <<TextA, TextA>>, source_id |-> "doc-A"]
    /\ last.result.ingested = 2
    /\ {p.id.name : p \in points} = {"doc-A:0", "doc-A:1"}

\* whether a stage of the last ingestion failed: no chunks or a blank chunk,
\* a request to the embedding service that raised or answered with a vector
\* of the wrong length, fewer vectors than chunks, a file that could not be
\* loaded
StageFailed ==
    \/ last.op = "ragent_inngest_pdf"
        /\ Get(last.args.data, "pdf_path", "") # "a.pdf"
    \/ last.op = "upsert_embeddings"
        /\ \/ last.args.chunks = <<>>
           \/ \E i \in 1..Len(last.args.chunks) : last.args.chunks[i] \in {TextBlank, TextEmpty}
    \/ \E i \in 1..Len(embed_calls) : embed_calls[i].answer # "ok"

\* C6: an ingestion in which a stage fails raises an error, and an ingestion
\* that raises an error leaves the records of the store as they were.
C6_FailedIngestionWritesNothing ==
    last.op \in Ingestions
        => /\ StageFailed => last.outcome = "error"
           /\ last.outcome = "error" => points = pre

C6_Witness ==
    /\ last.op = "upsert_embeddings"
    /\ Len(last.args.chunks) = 2
    /\ Len(embed_calls) = 2
    /\ embed_calls[1].answer = "ok"
    /\ embed_calls[2].answer = "raise"
    /\ last.outcome = "error"
    /\ points = pre
    /\ pre # {}

----------------------------------------------------------------------------
(* Properties of the vector store (SpecStore) *)

\* C3: upsert with vectors, ids and payloads that are not all of one length
\* raises an error, sends no request to the index and leaves the records of
\* the collection as they were.
C3_LengthMismatchWritesNothing ==
    (/\ last.op = "upsert"
     /\ \/ Len(last.args.vectors) # Len(last.args.ids)
        \/ Len(last.args.vectors) # Len(last.args.payloads))
        => /\ last.outcome = "error"
           /\ index_calls = <<>>
           /\ points = pre

C3_Witness ==
    /\ last.op = "upsert"
    /\ Len(last.args.vectors) = 1
    /\ Len(last.args.ids) = 2
    /\ Len(last.args.payloads) = 2
    /\ \A i \in 1..Len(last.args.vectors) : last.args.vectors[i].len = QDRANT_DIM
    /\ last.outcome = "error"
    /\ pre # {}
    /\ points = pre

\* C4: upsert with a vector, at any position of the batch, whose length is
\* not the configured dimension raises an error before anything is written:
\* no request reaches the index and the records are as they were.
C4_WrongDimensionWritesNothing ==
    (/\ last.op = "upsert"
     /\ \E i \in 1..Len(last.args.vectors) : last.args.vectors[i].len # QDRANT_DIM)
        => /\ last.outcome = "error"
           /\ index_calls = <<>>
           /\ points = pre

C4_Witness ==
    /\ last.op = "upsert"
    /\ Len(last.args.vectors) = 2
    /\ Len(last.args.ids) = 2
    /\ Len(last.args.payloads) = 2
    /\ last.args.ids[1] # last.args.ids[2]
    /\ last.args.vectors[1].len = QDRANT_DIM
    /\ last.args.vectors[2].len # QDRANT_DIM
    /\ last.outcome = "error"
    /\ last.args.ids[1] \notin PointIds(points)

----------------------------------------------------------------------------
(* Properties of retrieval (SpecQuery) *)

Queries == {"search_contexts", "ragent_query_pdf_ai"}

\* the question and the top_k of the last query
AskedQuestion ==
    IF last.op = "search_contexts" THEN last.args.question
    ELSE Get(last.args.data, "question", <<>>)

AskedTopK ==
    IF last.op = "search_contexts" THEN last.args.top_k
    ELSE Get(last.args.data, "top_k", DEFAULT_TOP_K)

\* a text with no character other than white space
IsBlankText(t) == \A i \in 1..Len(t) : t[i] \in {" ", "\t", "\n"}

\* C5: a query with top_k < 1, through ragent_query_pdf_ai or through
\* search_contexts, fails and no request of any kind reaches the index.
C5_BadTopKReachesNoIndex ==
    (last.op \in Queries /\ AskedTopK < 1)
        => /\ last.outcome = "error"
           /\ index_calls = <<>>

\* C7: the retrieval pipeline embeds the question in query mode, never in
\* the document mode used for chunks.
C7_QuestionEmbeddedInQueryMode ==
    last.op \in Queries
        => \A i \in 1..Len(embed_calls) : embed_calls[i].task_type = "retrieval_query"

\* the positions of the results whose payload has a text
WithText(results) ==
    {j \in 1..Len(results) :
        "text" \in DOMAIN results[j].payload /\ results[j].payload.text # <<>>}

\* C9: a valid search (top_k >= 1, a query vector of the configured
\* dimension) that the index answers returns at most top_k contexts, the
\* texts of the results in the order of the results, and sources without
\* duplicates, each the source of a returned record; there are no more
\* sources than distinct source ids in the store.
C9_SearchResultShape ==
    (/\ last.op = "search"
     /\ last.args.top_k >= 1
     /\ last.args.query_vector.len = QDRANT_DIM
     /\ last.error # "UnexpectedResponse")
        => LET contexts == last.result.contexts
               sources == last.result.sources
               results == last.result.results
               hits == WithText(results)
               nth(i) == CHOOSE j \in hits : Cardinality({k \in hits : k <= j}) = i
           IN  /\ last.outcome = "ok"
               /\ Len(results) <= last.args.top_k
               /\ Len(contexts) <= last.args.top_k
               /\ Len(contexts) = Cardinality(hits)
               /\ \A i \in 1..Len(contexts) : contexts[i] = results[nth(i)].payload.text
               /\ \A i, j \in 1..Len(sources) : i # j => sources[i] # sources[j]
               /\ \A i \in 1..Len(sources) : \E j \in hits :
                    /\ "source" \in DOMAIN results[j].payload
                    /\ results[j].payload.source = sources[i]
               /\ Len(sources) <=
                    Cardinality({p.payload.source :
                                    p \in {q \in points : "source" \in DOMAIN q.payload}})

C9_Witness ==
    /\ last.op = "search"
    /\ last.outcome = "ok"
    /\ points = StoreTwoSources
    /\ last.args.top_k = DEFAULT_TOP_K
    /\ Len(last.result.contexts) = 3
    /\ last.result.contexts[1] # last.result.contexts[2]
    /\ Len(last.result.sources) = 2

ExternalErrors ==
    {"Exception: embed_content failed", "ValueError: Expected embedding dimension",
     "ConnectionError", "UnexpectedResponse"}

\* C10: a valid query (a question that is not blank, top_k in 1..20) against
\* a store without records, the services answering, succeeds and returns no
\* contexts and no sources.
C10_EmptyStoreIsNoError ==
    (/\ last.op \in Queries
     /\ ~IsBlankText(AskedQuestion)
     /\ AskedTopK \in 1..MAX_TOP_K
     /\ pre = {}
     /\ last.error \notin ExternalErrors)
        => /\ last.outcome = "ok"
           /\ last.result.sources = <<>>
           /\ last.result.results = <<>>
           /\ last.op = "search_contexts" => last.result.contexts = <<>>
           /\ last.op = "ragent_query_pdf_ai" => last.result.num_contexts = 0

C10_Witness ==
    /\ last.op = "ragent_query_pdf_ai"
    /\ pre = {}
    /\ last.args.data = [question |-> TextA, top_k |-> 2]
    /\ last.outcome = "ok"
    /\ last.result.sources = <<>>
    /\ last.result.num_contexts = 0
    /\ index_calls[Len(index_calls)] = "search"

----------------------------------------------------------------------------
(* Properties of the embedder (SpecEmbed) *)

\* the texts given to the last call of the embedder
GivenTexts == IF last.op = "embed_texts" THEN last.args.texts ELSE <<last.args.query>>

\* C8 as stated: if any of the given texts is blank, the call raises an error,
\* sends nothing to the embedding service and returns no vectors.
C8_AnyBlankRejected ==
    (/\ last.op \in {"embed_texts", "embed_query"}
     /\ \E i \in 1..Len(GivenTexts) : IsBlankText(GivenTexts[i]))
        => /\ last.outcome = "error"
           /\ embed_calls = <<>>
           /\ last.result.vectors = <<>>

\* C8 amended: if all of the given texts are blank (or there is none), the
\* call raises an error, sends nothing to the embedding service and returns
\* no vectors; blank texts among others are left out: no request carries a
\* blank text, and a successful embed_texts returns one vector for each text
\* that is not blank.
C8_AllBlankRejected ==
    last.op \in {"embed_texts", "embed_query"}
        => /\ (\A i \in 1..Len(GivenTexts) : IsBlankText(GivenTexts[i]))
                => /\ last.outcome = "error"
                   /\ embed_calls = <<>>
                   /\ last.result.vectors = <<>>
           /\ \A i \in 1..Len(embed_calls) : ~IsBlankText(embed_calls[i].content)
           /\ last.outcome = "ok"
                => Len(last.result.vectors) =
                     Cardinality({i \in 1..Len(GivenTexts) : ~IsBlankText(GivenTexts[i])})

C8_Witness ==
    /\ last.op = "embed_texts"
    /\ last.args.texts = <<TextBlank, TextEmpty>>
    /\ last.outcome = "error"
    /\ embed_calls = <<>>

\* the requests of the last call that the service answered with a vector of
\* another length than EMBED_DIM
WrongLengthAnswers == {i \in 1..Len(embed_calls) : embed_calls[i].answer = "wrong_dim"}

\* C12: a call of embed_texts or embed_query that succeeds returns only
\* vectors of EMBED_DIM numbers, each one the answer of the service to one of
\* its requests, in the order of the requests; a call during which the
\* service answered with a vector of another length fails and returns no
\* vector.
C12_OnlyConfiguredDimension ==
    last.op \in {"embed_texts", "embed_query"}
        => /\ last.outcome = "ok"
                => /\ Len(last.result.vectors) = Len(embed_calls)
                   /\ \A i \in 1..Len(last.result.vectors) :
                        /\ last.result.vectors[i].len = EMBED_DIM
                        /\ last.result.vectors[i] =
                                [len |-> EMBED_DIM, of |-> embed_calls[i].content,
                                 task |-> embed_calls[i].task_type]
                        /\ embed_calls[i].answer = "ok"
           /\ last.outcome # "ok" => last.result.vectors = <<>>
           /\ WrongLengthAnswers # {}
                => /\ last.outcome = "error"
                   /\ last.error = "ValueError: Expected embedding dimension"
                   /\ last.result.vectors = <<>>

\* embed_texts of two texts, the service answering the second request with
\* a vector of another length: the call fails, the first vector is not
\* returned either
C12_Witness ==
    /\ last.op = "embed_texts"
    /\ Len(embed_calls) = 2
    /\ WrongLengthAnswers = {2}
    /\ last.outcome = "error"
    /\ last.result.vectors = <<>>

----------------------------------------------------------------------------
(* Properties of concurrent ingestion (SpecConc) *)

Terminated == \A p \in Procs : procs[p].pc \in {"done", "failed"}

\* the ids under which ingestion p stores its chunks
OwnIds(p) == {ChunkId(procs[p].source_id, k - 1) : k \in 1..Len(procs[p].chunks)}

\* the records ingestion p writes
OwnRecords(p) ==
    {PointStruct(ChunkId(procs[p].source_id, k - 1), procs[p].vecs[k],
                 ChunkPayload(procs[p].source_id, procs[p].chunks, k - 1)) :
        k \in 1..Len(procs[p].vecs)}

\* ingestion p, then ingestion q, one after the other from the store at the
\* start, the services answering each as they answered it in this run
Sequential(p, q) ==
    LET a == upsert_embeddings(pre, pre # {}, procs[p].chunks, procs[p].source_id,
                               procs[p].svc, procs[p].idx)
        b == upsert_embeddings(a.points, a.exists, procs[q].chunks, procs[q].source_id,
                               procs[q].svc, procs[q].idx)
    IN  [points |-> b.points, outcome |-> (p :> a.outcome @@ q :> b.outcome)]

SameAsSequential(p, q) ==
    /\ points = Sequential(p, q).points
    /\ \A r \in Procs : (procs[r].pc = "done") = (Sequential(p, q).outcome[r] = "ok")

LostCreationRace(p) == procs[p].error = "ConnectionError: collection already exists"

\* C11: when two ingestions with distinct source_ids run at the same time,
\* then in every interleaving, once both have ended, the store and the
\* outcome of each are what they would be had the two run one after the
\* other, in either order.
C11_ConcurrentAsSequential ==
    Terminated => SameAsSequential(1, 2) /\ SameAsSequential(2, 1)

\* C11, amended: at every moment of every interleaving the records under the
\* ids of each ingestion are the ones it wrote, if it has completed, and the
\* ones of the start otherwise, and every other record is as at the start;
\* once both have ended, and neither was refused the creation of the
\* collection, the store and the outcomes are those of the two run one after
\* the other, in either order; and an ingestion is refused the creation only
\* on a deployment that had no collection, after the other one created it.
C11_DistinctSourcesDoNotInterfere ==
    /\ \A p \in Procs :
        {r \in points : r.id \in OwnIds(p)} =
            IF procs[p].pc = "done" THEN OwnRecords(p)
            ELSE {r \in pre : r.id \in OwnIds(p)}
    /\ {r \in points : r.id \notin OwnIds(1) \cup OwnIds(2)} =
            {r \in pre : r.id \notin OwnIds(1) \cup OwnIds(2)}
    /\ (Terminated /\ \A p \in Procs : ~LostCreationRace(p))
            => SameAsSequential(1, 2) /\ SameAsSequential(2, 1)
    /\ \A p, q \in Procs :
        (p # q /\ LostCreationRace(p))
            => pre = {} /\ procs[q].created /\ procs[p].pc = "failed"

\* both ingestions completed on a fresh deployment, one of them having
\* created the collection, and the records of both documents are there
C11_Witness ==
    /\ pre = {}
    /\ \A p \in Procs : procs[p].pc = "done" /\ OwnRecords(p) # {}
    /\ procs[2].created
    /\ points = OwnRecords(1) \cup OwnRecords(2)
    /\ Cardinality(points) = Len(procs[1].chunks) + Len(procs[2].chunks)

----------------------------------------------------------------------------
(* Properties of the UI and the event server (SpecUpload) *)

\* the events the UI has sent for the saved file name
UploadEvents(name) ==
    {e \in inngest.pending \cup inngest.delivered : e.data = IngestEventData(name)}

\* C13: every event the UI has sent for a saved file has the name that
\* triggers ragent_inngest_pdf, and once the event server has delivered it, a
\* run of ragent_inngest_pdf with the pdf_path and source_id of the event has
\* been started.
C13_UploadEventTriggersIngestion ==
    \A name \in uploads :
        /\ UploadEvents(name) # {}
        /\ \A e \in UploadEvents(name) :
            /\ e.name = INGEST_FN.trigger
            /\ e \in inngest.delivered => Run(INGEST_FN, e) \in inngest.runs

====
